---- MODULE Spec2Model ----
(***************************************************************************)
(* Model of ObjectTraker.py: the mouse callback that selects a region, the *)
(* per-frame control loop of main(), the error-to-command mapping and the  *)
(* lifetime of the camera and the serial connection.                       *)
(*                                                                         *)
(* The external collaborators (camera, CSRT tracker, serial port, HighGUI) *)
(* are nondeterministic: a read succeeds or fails, an update reports any   *)
(* box of TrackBoxes or a loss, waitKey dispatches any pointer events and  *)
(* then returns any key.  HighGUI dispatches the mouse callback from       *)
(* inside cv2.waitKey, on the thread of main(), so pointer events are      *)
(* enabled exactly while main() is at line 158.                            *)
(***************************************************************************)
EXTENDS Integers, Sequences, FiniteSets, TLC

VARIABLES
    pc,               \* position of main(): the next statement to run
    drawing,          \* line 6
    start_point,      \* line 7
    end_point,        \* line 8
    tracker,          \* line 9: None or the handle (the box it was initialised with)
    tracking_active,  \* line 10
    ser,              \* line 14: "None", "open" or "closed"
    cap,              \* line 80: "None", "open", "failed" or "released"
    shape,            \* <<frame_w, frame_h>> of the frames the camera delivers
    param_frame,      \* callback_params['frame'] is set (line 107)
    press_state,      \* history: the selection state in which the press of the drag in progress arrived
    quit,             \* history: a 'q' has been polled
    lost,             \* history: the tracker reported a loss and no selection was accepted since
    n_tracked,        \* history: successful tracker.update() calls
    n_writes,         \* history: ser.write() calls
    n_release,        \* history: cap.release() calls
    n_close,          \* history: ser.close() calls
    ev                \* history: what the last step did

vars == <<pc, drawing, start_point, end_point, tracker, tracking_active, ser,
          cap, shape, param_frame, press_state, quit, lost, n_tracked,
          n_writes, n_release, n_close, ev>>

-----------------------------------------------------------------------------
(* Bounds *)

MaxCoord == 11    \* pointer coordinates are 0, MinSize and MaxCoord
DimSpan == 1      \* frame sides are MinDim .. MinDim + DimSpan
BoxSlack == 1     \* how far outside the frame the centre of a tracker box may lie
MaxTracked == 1   \* successful tracker updates in one run

(* Program constants *)

MinSize == 10          \* line 42
MAX_DEFLECTION == 30   \* line 122

None == <<>>

Coords == {0, MinSize, MaxCoord}

MinDim == MaxCoord + 1
Dims == MinDim .. MinDim + DimSpan

\* <<frame_w, frame_h>> of a landscape camera, both sides even or both odd
Shapes == { <<d + 2, d>> : d \in Dims }

\* widths and heights a tracker reports: an accepted selection is larger than MinSize
BoxSizes == {MinSize + 1, MinSize + 2}

\* box centres along a side of length dim: outside the frame on both ends,
\* on both edges, and around the middle
Centres(dim) ==
    {-BoxSlack, 0, dim \div 2 - 1, dim \div 2, dim \div 2 + 2, dim, dim + BoxSlack}

\* the boxes tracker.update may report, centres outside the frame included
TrackBoxes(sh) ==
    IF sh = None THEN {} ELSE
    { <<cx - w \div 2, cy - h \div 2, w, h>> :
          cx \in Centres(sh[1]), cy \in Centres(sh[2]), w \in BoxSizes, h \in BoxSizes }

-----------------------------------------------------------------------------
(* Pure helpers *)

Min(a, b) == IF a < b THEN a ELSE b
Abs(a) == IF a < 0 THEN -a ELSE a

\* the conversion by floor division
Trunc_Floor(n, d) == n \div d

\* int(): conversion of a quotient n/d (d > 0) to an integer, toward zero
Trunc(n, d) == IF n >= 0 THEN n \div d ELSE -((-n) \div d)

\* the selection state the flags encode
StateName(dr, ta) == IF dr THEN "Dragging" ELSE IF ta THEN "Tracking" ELSE "Idle"

NoEvent == [op |-> "none", pre |-> "Idle", pressed_in |-> "none", pt |-> None,
            inits |-> 0, box |-> None, bbox |-> None,
            raised |-> FALSE, wrote |-> 0, cmd |-> None, line |-> None,
            center |-> None, err |-> None, key |-> "none", closes |-> 0]

-----------------------------------------------------------------------------
Init ==
    /\ pc = "serial_init"
    /\ drawing = FALSE
    /\ start_point = None
    /\ end_point = None
    /\ tracker = None
    /\ tracking_active = FALSE
    /\ ser = "None"
    /\ cap = "None"
    /\ shape = None
    /\ param_frame = FALSE
    /\ press_state = "none"
    /\ quit = FALSE
    /\ lost = FALSE
    /\ n_tracked = 0
    /\ n_writes = 0
    /\ n_release = 0
    /\ n_close = 0
    /\ ev = NoEvent

selection == <<drawing, start_point, end_point, tracker, tracking_active, press_state, lost>>
resources == <<ser, cap, shape, n_release, n_close>>
counters == <<n_tracked, n_writes>>

\* lines 70-77: the serial port opens, or the open raises and ser stays None
SerialInit(ok) ==
    /\ pc = "serial_init"
    /\ ser' = IF ok THEN "open" ELSE "None"
    /\ pc' = "camera_open"
    /\ ev' = [NoEvent EXCEPT !.op = "serial_init"]
    /\ UNCHANGED <<selection, cap, shape, n_release, n_close, counters, param_frame, quit>>

\* lines 80-89: the camera opens, or main() returns at line 83
CameraOpen(ok, sh) ==
    /\ pc = "camera_open"
    /\ IF ok
         THEN /\ cap' = "open"
              /\ shape' = sh
              /\ pc' = "read"
         ELSE /\ cap' = "failed"
              /\ shape' = shape
              /\ pc' = "done"
    /\ ev' = [NoEvent EXCEPT !.op = "camera_open"]
    /\ UNCHANGED <<selection, ser, n_release, n_close, counters, param_frame, quit>>

-----------------------------------------------------------------------------
(* select_roi_callback, lines 16-46 *)

\* the box anchored at the press point instead of the smaller corner
SelectionBox_FromStart(p, q) ==
    <<p[1], p[2], Abs(q[1] - p[1]), Abs(q[2] - p[2])>>

\* lines 37-40 and 43: the axis-aligned box of a drag from p to q
SelectionBox(p, q) ==
    <<Min(p[1], q[1]), Min(p[2], q[2]), Abs(q[1] - p[1]), Abs(q[2] - p[2])>>

\* the size test with >= in place of >
Accepts_AtLeast(width, height) == width >= MinSize /\ height >= MinSize

\* line 42
Accepts(width, height) == width > MinSize /\ height > MinSize

\* the press that leaves tracking_active as it was
LButtonDown_KeepTracking(x, y) ==
    /\ pc = "waitKey"
    /\ drawing' = TRUE
    /\ start_point' = <<x, y>>
    /\ end_point' = <<x, y>>
    /\ press_state' = StateName(drawing, tracking_active)
    /\ ev' = [NoEvent EXCEPT !.op = "press", !.pt = <<x, y>>,
                             !.pre = StateName(drawing, tracking_active)]
    /\ UNCHANGED <<pc, tracker, tracking_active, lost, resources, counters, param_frame, quit>>

\* lines 20-24
LButtonDown(x, y) ==
    /\ pc = "waitKey"
    /\ drawing' = TRUE
    /\ start_point' = <<x, y>>
    /\ end_point' = <<x, y>>
    /\ tracking_active' = FALSE
    /\ press_state' = StateName(drawing, tracking_active)
    /\ ev' = [NoEvent EXCEPT !.op = "press", !.pt = <<x, y>>,
                             !.pre = StateName(drawing, tracking_active)]
    /\ UNCHANGED <<pc, tracker, lost, resources, counters, param_frame, quit>>

\* lines 26-28
MouseMove(x, y) ==
    /\ pc = "waitKey"
    /\ end_point' = IF drawing THEN <<x, y>> ELSE end_point
    /\ ev' = [NoEvent EXCEPT !.op = "move", !.pre = StateName(drawing, tracking_active)]
    /\ UNCHANGED <<pc, drawing, start_point, tracker, tracking_active, press_state, lost,
                   resources, counters, param_frame, quit>>

\* the release that leaves drawing set
LButtonUp_KeepDrawing(x, y) ==
    LET e == [NoEvent EXCEPT !.op = "release", !.pressed_in = press_state,
                             !.pre = StateName(drawing, tracking_active)]
    IN
    /\ pc = "waitKey"
    /\ end_point' = <<x, y>>
    /\ IF start_point = None
         THEN /\ UNCHANGED <<tracker, tracking_active, lost>>
              /\ ev' = [e EXCEPT !.raised = TRUE]
         ELSE LET bbox == SelectionBox(start_point, <<x, y>>) IN
              IF Accepts(bbox[3], bbox[4])
                THEN /\ tracker' = bbox
                     /\ tracking_active' = TRUE
                     /\ lost' = FALSE
                     /\ ev' = [e EXCEPT !.inits = 1, !.box = bbox]
                ELSE /\ UNCHANGED <<tracker, tracking_active, lost>>
                     /\ ev' = e
    /\ press_state' = "none"
    /\ UNCHANGED <<pc, drawing, start_point, resources, counters, param_frame, quit>>

\* lines 30-46, with init_tracker (lines 48-55) inlined.  Unpacking a
\* start_point of None at line 34 raises TypeError: the handler stops there,
\* after lines 31-32 have run.
LButtonUp(x, y) ==
    LET e == [NoEvent EXCEPT !.op = "release", !.pressed_in = press_state,
                             !.pre = StateName(drawing, tracking_active)]
    IN
    /\ pc = "waitKey"
    /\ drawing' = FALSE
    /\ end_point' = <<x, y>>
    /\ IF start_point = None
         THEN /\ UNCHANGED <<tracker, tracking_active, lost>>
              /\ ev' = [e EXCEPT !.raised = TRUE]
         ELSE LET bbox == SelectionBox(start_point, <<x, y>>) IN
              IF Accepts(bbox[3], bbox[4])
                THEN /\ tracker' = bbox
                     /\ tracking_active' = TRUE
                     /\ lost' = FALSE
                     /\ ev' = [e EXCEPT !.inits = 1, !.box = bbox]
                ELSE /\ UNCHANGED <<tracker, tracking_active, lost>>
                     /\ ev' = e
    /\ press_state' = "none"
    /\ UNCHANGED <<pc, start_point, resources, counters, param_frame, quit>>

-----------------------------------------------------------------------------
(* main, lines 101-172 *)

\* the error left in pixels, not divided by half the side
ErrorOf_Unscaled(center, dim) == <<2 * center - dim, 2>>

\* the error measured from the far edge instead of the middle
ErrorOf_FromEdge(center, dim) == <<2 * (center - dim), dim>>

\* lines 119-120: (center - dim / 2) / (dim / 2) as the fraction <<numerator, denominator>>
ErrorOf(center, dim) == <<2 * center - dim, dim>>

\* the channel converted by floor division
Fin_Floor(sign, err) == (sign * err[1] * MAX_DEFLECTION) \div err[2]

\* lines 124-127: int(sign * error * MAX_DEFLECTION)
Fin(sign, err) == Trunc(sign * err[1] * MAX_DEFLECTION, err[2])

\* lines 113-115
CenterOf(bbox) == <<bbox[1] + bbox[3] \div 2, bbox[2] + bbox[4] \div 2>>

\* the command with the signs of the left and right channels exchanged
Command_Swapped(error_x, error_y) ==
    <<Fin(1, error_x), Fin(-1, error_x), Fin(-1, error_y), Fin(1, error_y)>>

\* lines 124-127 and 132: <<fin_left, fin_right, fin_top, fin_bottom>>
Command(error_x, error_y) ==
    <<Fin(-1, error_x), Fin(1, error_x), Fin(-1, error_y), Fin(1, error_y)>>

\* the write made without testing the handle
SerialPresent_Always(s) == TRUE

\* line 131
SerialPresent(s) == s # "None"

\* the read that tries again after a failure
Read_Retry(ok) ==
    /\ pc = "read"
    /\ pc' = IF ok THEN "track" ELSE "read"
    /\ ev' = [NoEvent EXCEPT !.op = IF ok THEN "read" ELSE "read_failed",
                             !.pre = StateName(drawing, tracking_active)]
    /\ UNCHANGED <<selection, resources, counters, param_frame, quit>>

\* lines 102-105
Read(ok) ==
    /\ pc = "read"
    /\ pc' = IF ok THEN "track" ELSE "cleanup"
    /\ ev' = [NoEvent EXCEPT !.op = IF ok THEN "read" ELSE "read_failed",
                             !.pre = StateName(drawing, tracking_active)]
    /\ UNCHANGED <<selection, resources, counters, param_frame, quit>>

\* lines 107-141 and 147-156: the tracker reports bbox
TrackSuccess(bbox) ==
    /\ pc = "track"
    /\ tracking_active /\ tracker # None
    /\ bbox \in TrackBoxes(shape)
    /\ n_tracked < MaxTracked
    /\ LET center == CenterOf(bbox)
           error_x == ErrorOf(center[1], shape[1])
           error_y == ErrorOf(center[2], shape[2])
           command == Command(error_x, error_y)
       IN  /\ n_writes' = IF SerialPresent(ser) THEN n_writes + 1 ELSE n_writes
           /\ ev' = [NoEvent EXCEPT !.op = "update", !.pre = "Tracking", !.bbox = bbox,
                                    !.center = center, !.err = <<error_x, error_y>>,
                                    !.cmd = command,
                                    !.wrote = IF SerialPresent(ser) THEN 1 ELSE 0,
                                    !.line = IF SerialPresent(ser) THEN command ELSE None]
    /\ n_tracked' = n_tracked + 1
    /\ param_frame' = TRUE
    /\ pc' = "waitKey"
    /\ UNCHANGED <<selection, resources, quit>>

\* the loss that leaves tracking_active set, so that the next frame tries again
TrackLost_Retry ==
    /\ pc = "track"
    /\ tracking_active /\ tracker # None
    /\ lost' = TRUE
    /\ ev' = [NoEvent EXCEPT !.op = "lost", !.pre = "Tracking"]
    /\ param_frame' = TRUE
    /\ pc' = "waitKey"
    /\ UNCHANGED <<drawing, start_point, end_point, tracker, tracking_active, press_state,
                   resources, counters, quit>>

\* lines 107-110, 142-145 and 147-156: the tracker reports failure
TrackLost ==
    /\ pc = "track"
    /\ tracking_active /\ tracker # None
    /\ tracking_active' = FALSE
    /\ lost' = TRUE
    /\ ev' = [NoEvent EXCEPT !.op = "lost", !.pre = "Tracking"]
    /\ param_frame' = TRUE
    /\ pc' = "waitKey"
    /\ UNCHANGED <<drawing, start_point, end_point, tracker, press_state,
                   resources, counters, quit>>

\* the iteration that writes a command although nothing is tracked
NoTrack_Writes ==
    /\ pc = "track"
    /\ ~(tracking_active /\ tracker # None)
    /\ n_writes' = IF SerialPresent(ser) THEN n_writes + 1 ELSE n_writes
    /\ ev' = [NoEvent EXCEPT !.op = "idle_frame", !.pre = StateName(drawing, tracking_active),
                             !.wrote = IF SerialPresent(ser) THEN 1 ELSE 0]
    /\ param_frame' = TRUE
    /\ pc' = "waitKey"
    /\ UNCHANGED <<selection, resources, n_tracked, quit>>

\* lines 107-109 and 147-156: nothing is tracked in this iteration
NoTrack ==
    /\ pc = "track"
    /\ ~(tracking_active /\ tracker # None)
    /\ ev' = [NoEvent EXCEPT !.op = "idle_frame", !.pre = StateName(drawing, tracking_active)]
    /\ param_frame' = TRUE
    /\ pc' = "waitKey"
    /\ UNCHANGED <<selection, resources, counters, quit>>

\* the quit key handled without leaving the loop
KeyQuit_NoBreak ==
    /\ pc = "waitKey"
    /\ quit' = TRUE
    /\ pc' = "read"
    /\ ev' = [NoEvent EXCEPT !.op = "key", !.key = "q", !.pre = StateName(drawing, tracking_active)]
    /\ UNCHANGED <<selection, resources, counters, param_frame>>

\* lines 158-160
KeyQuit ==
    /\ pc = "waitKey"
    /\ quit' = TRUE
    /\ pc' = "cleanup"
    /\ ev' = [NoEvent EXCEPT !.op = "key", !.key = "q", !.pre = StateName(drawing, tracking_active)]
    /\ UNCHANGED <<selection, resources, counters, param_frame>>

\* the reset that drops the tracker handle but leaves tracking_active set
KeyReset_KeepActive ==
    /\ pc = "waitKey"
    /\ tracker' = None
    /\ drawing' = FALSE
    /\ start_point' = None
    /\ end_point' = None
    /\ pc' = "read"
    /\ ev' = [NoEvent EXCEPT !.op = "key", !.key = "r", !.pre = StateName(drawing, tracking_active)]
    /\ press_state' = "none"
    /\ UNCHANGED <<tracking_active, lost, resources, counters, param_frame, quit>>

\* the reset that keeps the tracker handle
KeyReset_KeepTracker ==
    /\ pc = "waitKey"
    /\ tracking_active' = FALSE
    /\ drawing' = FALSE
    /\ start_point' = None
    /\ end_point' = None
    /\ pc' = "read"
    /\ ev' = [NoEvent EXCEPT !.op = "key", !.key = "r", !.pre = StateName(drawing, tracking_active)]
    /\ press_state' = "none"
    /\ UNCHANGED <<tracker, lost, resources, counters, param_frame, quit>>

\* lines 158 and 161-166
KeyReset ==
    /\ pc = "waitKey"
    /\ tracking_active' = FALSE
    /\ tracker' = None
    /\ drawing' = FALSE
    /\ start_point' = None
    /\ end_point' = None
    /\ pc' = "read"
    /\ ev' = [NoEvent EXCEPT !.op = "key", !.key = "r", !.pre = StateName(drawing, tracking_active)]
    /\ press_state' = "none"
    /\ UNCHANGED <<lost, resources, counters, param_frame, quit>>

\* line 158 with any other key, or none within the wait
KeyOther ==
    /\ pc = "waitKey"
    /\ pc' = "read"
    /\ ev' = [NoEvent EXCEPT !.op = "key", !.key = "none", !.pre = StateName(drawing, tracking_active)]
    /\ UNCHANGED <<selection, resources, counters, param_frame, quit>>

\* lines 168-172
Cleanup ==
    /\ pc = "cleanup"
    /\ cap' = "released"
    /\ n_release' = n_release + 1
    /\ IF SerialPresent(ser)
         THEN /\ ser' = "closed"
              /\ n_close' = n_close + 1
              /\ ev' = [NoEvent EXCEPT !.op = "cleanup", !.closes = 1]
         ELSE /\ UNCHANGED <<ser, n_close>>
              /\ ev' = [NoEvent EXCEPT !.op = "cleanup"]
    /\ pc' = "done"
    /\ UNCHANGED <<selection, shape, counters, param_frame, quit>>

Next ==
    \/ \E ok \in BOOLEAN : SerialInit(ok)
    \/ \E ok \in BOOLEAN, sh \in Shapes : CameraOpen(ok, sh)
    \/ \E ok \in BOOLEAN : Read(ok)
    \/ \E bbox \in TrackBoxes(shape) : TrackSuccess(bbox)
    \/ TrackLost
    \/ NoTrack
    \/ \E x \in Coords, y \in Coords : LButtonDown(x, y)
    \/ \E x \in Coords, y \in Coords : MouseMove(x, y)
    \/ \E x \in Coords, y \in Coords : LButtonUp(x, y)
    \/ KeyQuit
    \/ KeyReset
    \/ KeyOther
    \/ Cleanup

Spec == Init /\ [][Next]_vars

TypeOK ==
    /\ pc \in {"serial_init", "camera_open", "read", "track", "waitKey", "cleanup", "done"}
    /\ drawing \in BOOLEAN /\ tracking_active \in BOOLEAN
    /\ ser \in {"None", "open", "closed"}
    /\ cap \in {"None", "open", "failed", "released"}

-----------------------------------------------------------------------------
(* Properties *)

\* the last step was a pointer-release received while a drag was in progress
ReleasedDrag == ev.op = "release" /\ ev.pre = "Dragging"

\* extent of the drag just released: start_point is the press point and
\* end_point the release point
DragWidth == IF end_point[1] >= start_point[1] THEN end_point[1] - start_point[1]
                                               ELSE start_point[1] - end_point[1]
DragHeight == IF end_point[2] >= start_point[2] THEN end_point[2] - start_point[2]
                                                ELSE start_point[2] - end_point[2]

\* C1: a release that completes a drag whose box is at most 10 wide or at
\* most 10 high makes no tracker-initialization call and leaves the state
\* Idle (not dragging, tracking inactive), whatever the state at the press.
C1_SmallSelectionDiscarded ==
    (ReleasedDrag /\ (DragWidth <= 10 \/ DragHeight <= 10))
        => (ev.inits = 0 /\ ~drawing /\ ~tracking_active)

\* a drag pressed while Tracking and released exactly 10 wide, more than 10 high
C1_Witness ==
    /\ ReleasedDrag /\ ev.pressed_in = "Tracking"
    /\ DragWidth = 10 /\ DragHeight > 10
    /\ ev.inits = 0 /\ tracker # None /\ ~tracking_active

\* C2: a release that completes a drag more than 10 wide and more than 10
\* high makes exactly one tracker-initialization call, with the box
\* (min x, min y, |dx|, |dy|) whatever the direction of the drag, and leaves
\* the state Tracking.
C2_AcceptedSelectionTracks ==
    (ReleasedDrag /\ DragWidth > 10 /\ DragHeight > 10)
        => /\ ev.inits = 1
           /\ ev.box = << IF start_point[1] <= end_point[1] THEN start_point[1] ELSE end_point[1],
                          IF start_point[2] <= end_point[2] THEN start_point[2] ELSE end_point[2],
                          DragWidth, DragHeight >>
           /\ tracker = ev.box
           /\ tracking_active /\ ~drawing

\* a drag from the lower right to the upper left that was accepted
C2_Witness ==
    /\ ReleasedDrag /\ ev.inits = 1
    /\ start_point[1] > end_point[1] /\ start_point[2] > end_point[2]
    /\ ev.box = <<end_point[1], end_point[2], DragWidth, DragHeight>>
    /\ tracking_active

\* C3: every line written to the serial link carries four integers of
\* magnitude at most 30, for every box the tracker may report.
C3_LinesWithinMax ==
    ev.line # None => \A i \in 1..4 : ev.line[i] >= -30 /\ ev.line[i] <= 30

\* C4: when the program has terminated, a camera that was acquired has been
\* released exactly once and a serial connection that was opened has been
\* closed exactly once, on every path.
C4_ResourcesReleased ==
    pc = "done" => /\ cap # "open"
                   /\ (cap = "released" => n_release = 1)
                   /\ ser # "open"
                   /\ (ser = "closed" => n_close = 1)

\* C5: a reset key polled in any state leaves the state Idle: tracking
\* inactive, not dragging, no tracker handle, start and end points cleared.
C5_ResetReturnsToIdle ==
    (ev.op = "key" /\ ev.key = "r")
        => /\ ~tracking_active /\ ~drawing
           /\ tracker = None
           /\ start_point = None /\ end_point = None

\* a reset polled while a drag was in progress over an earlier tracker
C5_Witness ==
    /\ ev.op = "key" /\ ev.key = "r" /\ ev.pre = "Dragging"
    /\ n_tracked > 0 /\ tracker = None /\ pc = "read"

\* C6: when the serial connection failed to open, no serial write and no
\* serial close is ever made, and an iteration that tracks an object still
\* computes its command and reaches the key poll.
C6_NoSerialNoWrites ==
    (pc # "serial_init" /\ ser = "None")
        => /\ n_writes = 0 /\ n_close = 0
           /\ ev.wrote = 0 /\ ev.closes = 0 /\ ev.line = None
           /\ (ev.op = "update" => ev.cmd # None /\ pc = "waitKey")

\* a run without serial connection that tracked a frame and ended by 'q'
C6_Witness ==
    /\ ser = "None" /\ pc = "done" /\ quit
    /\ n_tracked > 0 /\ n_writes = 0 /\ n_close = 0 /\ n_release = 1

\* C7: once 'q' is polled the loop is left at once: the only step that
\* follows is the cleanup, no frame is read, no tracker update is made and
\* no command is written, and the cleanup releases the camera and closes
\* the serial connection if there is one.
C7_QuitTerminates ==
    /\ [](quit => pc \in {"cleanup", "done"})
    /\ [][quit => /\ ev'.op = "cleanup" /\ pc' = "done"
                  /\ n_tracked' = n_tracked /\ n_writes' = n_writes
                  /\ cap' = "released" /\ n_release' = 1
                  /\ (ser # "None" => ser' = "closed" /\ n_close' = 1)]_vars

\* a run with a serial connection that wrote a command before 'q' ended it
C7_Witness ==
    /\ quit /\ pc = "done" /\ n_writes > 0
    /\ cap = "released" /\ n_release = 1 /\ ser = "closed" /\ n_close = 1

\* the last step was a successful tracker update
Tracked == ev.op = "update"

\* C8: in a tracked frame whose computed centre is (frame_w/2, frame_h/2),
\* both normalized errors are 0 and the command, also the line written when
\* there is a serial connection, is <0,0,0,0>.
C8_CentreGivesZero ==
    (Tracked /\ 2 * ev.center[1] = shape[1] /\ 2 * ev.center[2] = shape[2])
        => /\ ev.err[1][1] = 0 /\ ev.err[2][1] = 0
           /\ ev.cmd = <<0, 0, 0, 0>>
           /\ (ser = "open" => ev.line = <<0, 0, 0, 0>>)

\* a command written for a box centred in the frame
C8_Witness ==
    /\ Tracked /\ 2 * ev.center[1] = shape[1] /\ 2 * ev.center[2] = shape[2]
    /\ ev.wrote = 1 /\ ev.line = <<0, 0, 0, 0>>

\* C9: in a tracked frame whose computed centre x is frame_w the error is 1
\* and fin_left = -30, fin_right = 30; with centre x = 0 the error is -1
\* and fin_left = 30, fin_right = -30.
C9_EdgeGivesFullDeflection ==
    /\ (Tracked /\ ev.center[1] = shape[1])
          => /\ ev.err[1][1] = ev.err[1][2]
             /\ ev.cmd[1] = -30 /\ ev.cmd[2] = 30
    /\ (Tracked /\ ev.center[1] = 0)
          => /\ ev.err[1][1] = -ev.err[1][2]
             /\ ev.cmd[1] = 30 /\ ev.cmd[2] = -30

\* a command written for a box centred on the right edge
C9_Witness ==
    /\ Tracked /\ ev.center[1] = shape[1]
    /\ ev.wrote = 1 /\ ev.line[1] = -30 /\ ev.line[2] = 30

\* C10: a tracker initialization is made only by a pointer-release received
\* while Dragging; a release received while Idle or Tracking makes none and
\* leaves the selection state as it was.
C10_InitOnlyFromDragging ==
    /\ ev.inits > 0 => ReleasedDrag
    /\ (ev.op = "release" /\ ev.pre # "Dragging")
          => (ev.inits = 0 /\ StateName(drawing, tracking_active) = ev.pre)

\* the last step was a pointer-release that initialised a tracker
Accepted(e) == e.op = "release" /\ e.inits = 1

\* C11: when a tracker update reports a loss, no command is written in that
\* iteration and the state becomes Idle; from then on no tracker update is
\* made and no command is written until a pointer-release has a selection
\* accepted: the failed update is not tried again.
C11_LostStopsTracking ==
    /\ [](ev.op = "lost" => /\ ev.wrote = 0 /\ ev.line = None
                            /\ ~tracking_active /\ ~drawing /\ lost)
    /\ [][(lost /\ ~Accepted(ev'))
              => /\ ev'.op \notin {"update", "lost"}
                 /\ n_tracked' = n_tracked /\ n_writes' = n_writes
                 /\ lost']_vars

\* an iteration that ran after a loss, in state Idle, without a tracker update
C11_Witness ==
    /\ lost /\ ev.op = "idle_frame" /\ ev.pre = "Idle"
    /\ tracker # None /\ ~tracking_active /\ pc = "waitKey"

\* C12: a pointer-press at p in any state yields Dragging with start and
\* current point p and tracking inactive; while tracking is inactive no
\* tracker update is made and no command is written until a pointer-release
\* has a selection accepted.
C12_PressInterruptsTracking ==
    /\ [](ev.op = "press" => /\ drawing /\ ~tracking_active
                             /\ ev.pt # None
                             /\ start_point = ev.pt /\ end_point = ev.pt)
    /\ [][(~tracking_active /\ ~Accepted(ev'))
              => /\ ev'.op \notin {"update", "lost"}
                 /\ n_tracked' = n_tracked /\ n_writes' = n_writes
                 /\ ~tracking_active']_vars

\* a press that arrived in state Tracking, after a frame had been tracked
C12_Witness ==
    /\ ev.op = "press" /\ ev.pre = "Tracking" /\ n_tracked > 0
    /\ drawing /\ ~tracking_active /\ tracker # None

\* C13: with a serial connection, an iteration writes exactly one line when
\* the tracker update succeeds and none otherwise, so the lines written
\* number the frames tracked successfully.
C13_OneLinePerTrackedFrame ==
    ser # "None"
        => /\ n_writes = n_tracked
           /\ (ev.op = "update" => ev.wrote = 1 /\ ev.line = ev.cmd)
           /\ (ev.op # "update" => ev.wrote = 0 /\ ev.line = None)

\* a loss reported after a tracked frame: one line written, none for the loss
C13_Witness ==
    /\ ser = "open" /\ ev.op = "lost"
    /\ n_tracked > 0 /\ n_writes = n_tracked

\* the computed centre lies within the frame, edges included
CentreInFrame ==
    /\ ev.center[1] >= 0 /\ ev.center[1] <= shape[1]
    /\ ev.center[2] >= 0 /\ ev.center[2] <= shape[2]

\* C14: for every tracked box whose computed centre satisfies
\* 0 <= center_x <= frame_w and 0 <= center_y <= frame_h, both normalized
\* errors lie in [-1, 1] and all four channels lie in [-30, 30].
C14_InFrameWithinRange ==
    (Tracked /\ CentreInFrame)
        => /\ \A a \in 1..2 : /\ ev.err[a][2] > 0
                              /\ ev.err[a][1] >= -ev.err[a][2]
                              /\ ev.err[a][1] <= ev.err[a][2]
           /\ \A i \in 1..4 : ev.cmd[i] >= -30 /\ ev.cmd[i] <= 30

\* a box centred on the bottom edge and strictly between the middle and the
\* right edge: a full deflection and a partial one
C14_Witness ==
    /\ Tracked /\ CentreInFrame
    /\ ev.center[2] = shape[2] /\ ev.cmd[4] = 30
    /\ 2 * ev.center[1] > shape[1] /\ ev.center[1] < shape[1]
    /\ ev.cmd[2] > 0 /\ ev.cmd[2] < 30

\* r is the quotient n/d (d > 0) with its fraction dropped
IsTruncation(r, n, d) ==
    IF n >= 0 THEN r >= 0 /\ r * d <= n /\ n < (r + 1) * d
              ELSE r <= 0 /\ r * d >= n /\ n > (r - 1) * d

\* c is x plus half of w, the half rounded down
IsCentre(c, x, w) == 2 * (c - x) <= w /\ w < 2 * (c - x) + 2

\* C15: for every tracked box and frame size each channel is the truncation
\* toward zero of the exact value +-30 * (center - dim/2) / (dim/2), with
\* center = (x + w div 2, y + h div 2): 30 * (2 * center - dim) / dim for
\* fin_right and fin_bottom, its negation for fin_left and fin_top.
C15_ChannelsTruncate ==
    Tracked
        => /\ IsCentre(ev.center[1], ev.bbox[1], ev.bbox[3])
           /\ IsCentre(ev.center[2], ev.bbox[2], ev.bbox[4])
           /\ IsTruncation(ev.cmd[1], -30 * (2 * ev.center[1] - shape[1]), shape[1])
           /\ IsTruncation(ev.cmd[2], 30 * (2 * ev.center[1] - shape[1]), shape[1])
           /\ IsTruncation(ev.cmd[3], -30 * (2 * ev.center[2] - shape[2]), shape[2])
           /\ IsTruncation(ev.cmd[4], 30 * (2 * ev.center[2] - shape[2]), shape[2])

\* a fin_left whose exact value is negative with a fraction above one half:
\* truncation differs from both the floor and the nearest integer
C15_Witness ==
    /\ Tracked /\ ev.bbox[3] % 2 = 1
    /\ LET n == 30 * (2 * ev.center[1] - shape[1])
           d == shape[1]
       IN  /\ n > 0 /\ 2 * (n % d) > d
           /\ ev.cmd[1] = -(n \div d)
           /\ ev.cmd[1] # (-n) \div d

\* C16: when a frame read fails the loop ends in that iteration: the only
\* step that follows is the cleanup; no frame is read again, no tracker
\* update is made, no command is written and no key is polled, whatever
\* the selection state.
C16_ReadFailureTerminates ==
    /\ [](ev.op = "read_failed" => pc = "cleanup")
    /\ [][ev.op = "read_failed"
              => /\ ev'.op = "cleanup" /\ pc' = "done"
                 /\ n_tracked' = n_tracked /\ n_writes' = n_writes
                 /\ ~quit']_vars

\* a read that failed while an object was being tracked
C16_Witness ==
    /\ ev.op = "read_failed" /\ ev.pre = "Tracking"
    /\ n_tracked > 0 /\ pc = "cleanup" /\ ~quit

\* C17: for every interleaving of pointer events, key presses and tracker
\* outcomes the pointer-release handler finds a defined start point: no
\* release, also not the first pointer event nor one that follows a reset
\* polled during a drag, raises.
C17_ReleaseFindsStart ==
    ev.op = "release" => (~ev.raised /\ start_point # None)

\* C18: the dragging flag and the tracking-active flag are never both true.
C18_FlagsExclusive == ~(drawing /\ tracking_active)

\* a drag begun in state Tracking and accepted at its release
C18_Witness ==
    /\ ReleasedDrag /\ ev.pressed_in = "Tracking" /\ ev.inits = 1
    /\ tracking_active /\ ~drawing

\* C19: tracking_active implies that a tracker handle is present, so an
\* iteration in state Tracking always makes a tracker update.
C19_ActiveHasTracker ==
    /\ tracking_active => tracker # None
    /\ ev.op = "idle_frame" => ev.pre # "Tracking"

\* an iteration about to update the tracker after an earlier tracked frame
C19_Witness ==
    /\ pc = "track" /\ tracking_active /\ tracker # None /\ n_tracked > 0

\* C20: every command has fin_left = -fin_right and fin_top = -fin_bottom,
\* for every tracked box and frame size, also in the line written.
C20_OppositeChannelsNegate ==
    Tracked
        => /\ ev.cmd[1] = -ev.cmd[2] /\ ev.cmd[3] = -ev.cmd[4]
           /\ (ev.wrote = 1 => ev.line[1] + ev.line[2] = 0 /\ ev.line[3] + ev.line[4] = 0)

\* a line written whose exact horizontal value has a fraction, with all
\* four channels deflected
C20_Witness ==
    /\ Tracked /\ ev.wrote = 1
    /\ (30 * (2 * ev.center[1] - shape[1])) % shape[1] # 0
    /\ ev.line[2] # 0 /\ ev.line[4] # 0
    /\ ev.line[1] = -ev.line[2] /\ ev.line[3] = -ev.line[4]

====
